---- MODULE Spec2Model ----
(***************************************************************************)
(* Model of employee-frontend/src/App.jsx: the App component's state       *)
(* (employees, form), the mount effect fetchEmployees, handleChange and    *)
(* handleSubmit, in local mode (localStorage) and in remote mode (axios    *)
(* requests to the /employees resource, whose responses may arrive in any  *)
(* order).                                                                 *)
(***************************************************************************)
EXTENDS Integers, Sequences, FiniteSets, TLC

VARIABLES
    useLocal,       \* App.jsx:10, fixed at startup
    employees,      \* App.jsx:14, a JavaScript value (see Arr/Obj/Other)
    form,           \* App.jsx:15, the draft
    localStorage,   \* what localStorage holds under LOCAL_KEY
    mounted,        \* FALSE once a render has thrown and React unmounted App
    mountCalls,     \* how many times the mount effect (App.jsx:23-45) ran
    calls,          \* the asynchronous handlers suspended at an await
    db,             \* the records the remote backend stores
    postShape,      \* what the backend answers a create with, fixed at startup
    nEvents,        \* number of user events (change, submit) so far
    anyFailed,      \* some request or storage write has failed so far
    initialStore,   \* what localStorage held when the page was opened
    resolved,       \* the creates answered with an object, in resolution order
    log             \* what the last step did (console.error included)

vars == <<useLocal, employees, form, localStorage, mounted, mountCalls,
          calls, db, postShape, nEvents, anyFailed, initialStore,
          resolved, log>>

\* ------------------------------------------------------------------------
\* Bounds
MaxEvents == 3

\* ------------------------------------------------------------------------
\* JavaScript values
Null == [t |-> "null"]
Str(s) == [t |-> "string", s |-> s]
Num(n) == [t |-> "number", n |-> n]
NaN == [t |-> "number", nan |-> TRUE]

\* A response body or a state value: an array, a plain object, or anything
\* else (a string, the empty body, null).
Arr(items) == [t |-> "array", items |-> items]
Obj(o) == [t |-> "object", obj |-> o]
Other == [t |-> "other"]

IsArray(v) == v.t = "array"

\* typeof v === 'object' && !Array.isArray(v), for a truthy v
IsPlainObject(v) == v.t = "object"

\* ------------------------------------------------------------------------
\* The draft
FieldNames == {"first_name", "last_name", "email", "birthdate", "salary"}

EmptyForm ==
    [first_name |-> "", last_name |-> "", email |-> "", birthdate |-> "",
     salary |-> ""]

\* The values a change event can carry for each input of the form
FieldValues(name) ==
    CASE name = "first_name" -> {"Ann"}
      [] name = "last_name" -> {" "}
      [] name = "email" -> {"ann@x.org"}
      [] name = "birthdate" -> {"2000-01-31"}
      [] name = "salary" -> {"50"}

\* Number(s) for the strings of the model
ToNumber(s) ==
    CASE s = "" -> Num(0)
      [] s = " " -> Num(0)
      [] s = "50" -> Num(50)
      [] OTHER -> NaN

\* Variant of OrNull without the "|| null"
OrNullKeep(s) == Str(s)

\* x || null for a string x: the empty string is the only falsy string
OrNull(s) == IF s = "" THEN Null ELSE Str(s)

PayloadSalary(f) == IF f.salary = "" THEN Null ELSE ToNumber(f.salary)

Payload(f) ==
    [first_name |-> OrNull(f.first_name),
     last_name |-> OrNull(f.last_name),
     email |-> OrNull(f.email),
     birthdate |-> OrNull(f.birthdate),
     salary |-> PayloadSalary(f)]

\* ------------------------------------------------------------------------
\* Records and identifiers
HasField(r, name) == name \in DOMAIN r

\* it?.employee_id ?? it?.id ?? 0
IdOf(it) ==
    IF HasField(it, "employee_id") THEN it.employee_id
    ELSE IF HasField(it, "id") THEN it.id
    ELSE 0

Max2(a, b) == IF a >= b THEN a ELSE b

\* current.reduce((m, it) => Math.max(m, Number(IdOf(it))), 0)
RECURSIVE MaxId(_)
MaxId(s) == IF s = <<>> THEN 0 ELSE Max2(MaxId(Tail(s)), IdOf(Head(s)))

\* Variants of NewId: the length of the list plus one; always one
NewIdLen(s) == Len(s) + 1

NewIdOne(s) == 1

\* maxId + 1 || 1
NewId(s) == IF MaxId(s) + 1 = 0 THEN 1 ELSE MaxId(s) + 1

NewEmp(newId, payload) ==
    [employee_id |-> newId,
     first_name |-> payload.first_name,
     last_name |-> payload.last_name,
     email |-> payload.email,
     birthdate |-> payload.birthdate,
     salary |-> payload.salary]

\* Array.prototype.sort with the comparator IdOf(a) - IdOf(b): stable
RECURSIVE InsertById(_, _)
InsertById(s, x) ==
    IF s = <<>> THEN <<x>>
    ELSE IF IdOf(s[Len(s)]) <= IdOf(x) THEN Append(s, x)
    ELSE Append(InsertById(SubSeq(s, 1, Len(s) - 1), x), s[Len(s)])

RECURSIVE SortById(_)
SortById(s) ==
    IF s = <<>> THEN <<>>
    ELSE InsertById(SortById(SubSeq(s, 1, Len(s) - 1)), s[Len(s)])

\* ------------------------------------------------------------------------
\* localStorage under LOCAL_KEY: absent, the empty text, a JSON text, or a
\* text that is not JSON.  A JSON text is modelled by the value it parses to.
Absent == [t |-> "absent"]
EmptyText == [t |-> "empty"]
Garbage == [t |-> "garbage"]
JsonText(v) == [t |-> "json", value |-> v]

\* JSON.stringify writes NaN as null
JsonField(v) == IF HasField(v, "nan") THEN Null ELSE v

JsonRecord(r) == [name \in DOMAIN r |->
                    IF name \in {"employee_id", "id"} THEN r[name]
                    ELSE JsonField(r[name])]

JSONStringify(items) ==
    JsonText(Arr([i \in 1..Len(items) |-> JsonRecord(items[i])]))

\* ------------------------------------------------------------------------
\* Seeds: what the store and the backend may hold when the page is opened
Seed(idField, n, first) ==
    [f \in {idField} \cup FieldNames |->
        IF f = idField THEN n
        ELSE IF f = "first_name" THEN Str(first)
        ELSE Null]

NoIdRecord == [f \in FieldNames |-> IF f = "first_name" THEN Str("Zed") ELSE Null]

StoreSeeds ==
    {Absent, EmptyText, Garbage, JsonText(Other), JsonText(Obj([message |-> "x"])),
     JsonText(Arr(<<>>)),
     JsonText(Arr(<<Seed("employee_id", 1, "Bob")>>)),
     JsonText(Arr(<<Seed("id", 3, "Cy"), NoIdRecord>>))}

\* A backend answers a create with the created record, with an
\* acknowledgement object, or with a body that is no object (empty, a string)
PostShapes == {"record", "ack", "empty"}

DbSeeds == {<<Seed("id", 3, "Cy"), Seed("employee_id", 2, "Di")>>}

\* ------------------------------------------------------------------------
\* Calls in flight: a request the backend has not answered, or a response
\* on its way back.  k = 0 is the mount effect, k >= 1 the k-th submission.
Request(k, op, req, payload) ==
    [k |-> k, op |-> op, req |-> req, phase |-> "request", payload |-> payload]

Response(c, data) ==
    [k |-> c.k, op |-> c.op, req |-> c.req, phase |-> "response",
     payload |-> c.payload, data |-> data]

\* A request that fails (no connection, a timeout, an error status) rejects
\* the awaited promise; a response that arrives resolves it.
Rejected(c) == c.phase = "request"

Event(ev, k) == [ev |-> ev, k |-> k]

\* The event of a submission, with the draft it read and the payload it built
SubmitEvent(ev, k, draft) ==
    [ev |-> ev, k |-> k, draft |-> draft, payload |-> Payload(draft)]

Init ==
    /\ useLocal \in BOOLEAN
    /\ employees = Arr(<<>>)
    /\ form = EmptyForm
    /\ localStorage \in (IF useLocal THEN StoreSeeds ELSE {Absent})
    /\ initialStore = localStorage
    /\ db \in (IF useLocal THEN {<<>>} ELSE DbSeeds)
    /\ postShape \in (IF useLocal THEN {"record"} ELSE PostShapes)
    /\ mounted = TRUE
    /\ mountCalls = 0
    /\ calls = {}
    /\ nEvents = 0
    /\ anyFailed = FALSE
    /\ resolved = <<>>
    /\ log = Event("init", 0)

\* What no handler of the component changes
Fixed == UNCHANGED <<useLocal, postShape, initialStore>>

\* ------------------------------------------------------------------------
\* State setters.  A render of a value that is no array throws at
\* employees.map (App.jsx:121) and React unmounts the component: nothing
\* of the component is left to act, so every action requires mounted.
SetEmployees(v) == employees' = v /\ mounted' = IsArray(v)

\* Variant of AppendEmployee that puts the new row first
AppendEmployeeFront(data) ==
    employees' = Arr(<<data>> \o employees.items) /\ mounted' = TRUE

\* setEmployees(prev => [...prev, data])
AppendEmployee(data) ==
    employees' = Arr(Append(employees.items, data)) /\ mounted' = TRUE

\* Variant of SetForm that leaves the draft as it is
SetFormKeep(f) == form' = form

SetForm(f) == form' = f

\* catch (err) { console.error(err); } of fetchEmployees
CatchFetch ==
    /\ log' = Event("mount-error", 0)
    /\ anyFailed' = TRUE
    /\ UNCHANGED <<employees, mounted>>

\* Variant of CatchSubmit that resets the draft as a finally block would
CatchSubmitReset(ev, k) ==
    /\ log' = Event(ev, k)
    /\ anyFailed' = TRUE
    /\ form' = EmptyForm
    /\ UNCHANGED <<employees, mounted>>

\* catch (err) { console.error(err); } of handleSubmit
CatchSubmit(ev, k) ==
    /\ log' = Event(ev, k)
    /\ anyFailed' = TRUE
    /\ UNCHANGED <<employees, mounted, form>>

\* ------------------------------------------------------------------------
\* The mount effect: useEffect(..., []) runs once, after the first render
\* Variant of EffectDue for an effect without the [] dependency list
EffectDueAlways == TRUE

EffectDue == mountCalls = 0

\* if (raw): null and the empty text are falsy
Truthy(raw) == raw.t \notin {"absent", "empty"}

\* Variant of SeedStore that does not write the seed
SeedStoreSkipped == UNCHANGED localStorage

\* localStorage.setItem(LOCAL_KEY, JSON.stringify(seed))
SeedStore == localStorage' = JSONStringify(<<>>)

FetchEmployeesLocal ==
    /\ mounted /\ useLocal /\ EffectDue
    /\ mountCalls' = mountCalls + 1
    /\ \/ /\ localStorage.t = "json"
          /\ SetEmployees(localStorage.value)
          /\ log' = Event("mount-ok", 0)
          /\ UNCHANGED <<localStorage, anyFailed>>
       \/ /\ localStorage.t = "garbage"      \* JSON.parse throws
          /\ CatchFetch
          /\ UNCHANGED localStorage
       \/ /\ ~Truthy(localStorage)
          /\ \/ /\ SeedStore
                /\ SetEmployees(Arr(<<>>))
                /\ log' = Event("mount-ok", 0)
                /\ UNCHANGED anyFailed
             \/ /\ CatchFetch                \* localStorage.setItem throws
                /\ UNCHANGED localStorage
    /\ Fixed
    /\ UNCHANGED <<form, calls, db, nEvents, resolved>>

FetchEmployeesRemote ==
    /\ mounted /\ ~useLocal /\ EffectDue
    /\ mountCalls' = mountCalls + 1
    /\ calls' = calls \cup {Request(0, "mount", "GET", Null)}
    /\ log' = Event("mount-sent", 0)
    /\ Fixed
    /\ UNCHANGED <<employees, form, localStorage, mounted, db, nEvents,
                   anyFailed, resolved>>

\* after await api.get(...) in fetchEmployees
MountResponse(c) ==
    /\ mounted /\ c \in calls /\ c.op = "mount"
    /\ calls' = calls \ {c}
    /\ IF ~Rejected(c)
       THEN /\ SetEmployees(c.data)
            /\ log' = Event("mount-ok", 0)
            /\ UNCHANGED anyFailed
       ELSE CatchFetch
    /\ Fixed
    /\ UNCHANGED <<form, localStorage, mountCalls, db, nEvents, resolved>>

\* ------------------------------------------------------------------------
\* handleChange
\* Variant of Edited that does not spread the current draft
EditedAlone(name, value) == [EmptyForm EXCEPT ![name] = value]

\* { ...form, [e.target.name]: e.target.value }
Edited(name, value) == [form EXCEPT ![name] = value]

HandleChange(name, value) ==
    /\ mounted /\ mountCalls > 0 /\ nEvents < MaxEvents
    /\ form' = Edited(name, value)
    /\ nEvents' = nEvents + 1
    /\ log' = [ev |-> "change", k |-> nEvents + 1, name |-> name,
               value |-> value]
    /\ Fixed
    /\ UNCHANGED <<employees, localStorage, mounted, mountCalls, calls, db,
                   anyFailed, resolved>>

\* ------------------------------------------------------------------------
\* handleSubmit, local mode (no await: the handler runs to its end)
Current == IF IsArray(employees) THEN employees.items ELSE <<>>

\* Variant of Updated that builds the list from the new record alone
UpdatedOnlyNew(payload) == <<NewEmp(NewId(Current), payload)>>

Updated(payload) == Append(Current, NewEmp(NewId(Current), payload))

HandleSubmitLocal ==
    /\ mounted /\ mountCalls > 0 /\ useLocal /\ nEvents < MaxEvents
    /\ nEvents' = nEvents + 1
    /\ \/ /\ localStorage' = JSONStringify(Updated(Payload(form)))
          /\ SetEmployees(Arr(Updated(Payload(form))))
          /\ SetForm(EmptyForm)
          /\ log' = SubmitEvent("create-ok", nEvents + 1, form)
          /\ UNCHANGED anyFailed
       \/ /\ CatchSubmit("store-error", nEvents + 1)   \* setItem throws
          /\ UNCHANGED localStorage
    /\ Fixed
    /\ UNCHANGED <<mountCalls, calls, db, resolved>>

\* ------------------------------------------------------------------------
\* handleSubmit, remote mode: up to the first await
HandleSubmitRemote ==
    /\ mounted /\ mountCalls > 0 /\ ~useLocal /\ nEvents < MaxEvents
    /\ nEvents' = nEvents + 1
    /\ calls' = calls \cup {Request(nEvents + 1, "submit", "POST", Payload(form))}
    /\ log' = SubmitEvent("post-sent", nEvents + 1, form)
    /\ Fixed
    /\ UNCHANGED <<employees, form, localStorage, mounted, mountCalls, db,
                   anyFailed, resolved>>

\* after await api.post(...)
PostResponse(c) ==
    /\ mounted /\ c \in calls /\ c.op = "submit" /\ c.req = "POST"
    /\ IF Rejected(c)
       THEN /\ calls' = calls \ {c}
            /\ CatchSubmit("post-error", c.k)
            /\ UNCHANGED resolved
       ELSE IF IsPlainObject(c.data)
       THEN /\ calls' = calls \ {c}
            /\ AppendEmployee(c.data.obj)
            /\ resolved' = Append(resolved, [k |-> c.k, row |-> c.data.obj])
            /\ SetForm(EmptyForm)
            /\ log' = Event("create-ok", c.k)
            /\ UNCHANGED anyFailed
       ELSE /\ calls' = (calls \ {c}) \cup {Request(c.k, "submit", "GET", Null)}
            /\ log' = Event("refetch-sent", c.k)
            /\ UNCHANGED <<employees, mounted, form, anyFailed, resolved>>
    /\ Fixed
    /\ UNCHANGED <<localStorage, mountCalls, db, nEvents>>

\* Array.isArray(res.data) ? res.data.slice().sort(...) : res.data
Sorted(data) == IF IsArray(data) THEN Arr(SortById(data.items)) ELSE data

\* after await api.get(...) in handleSubmit
RefetchResponse(c) ==
    /\ mounted /\ c \in calls /\ c.op = "submit" /\ c.req = "GET"
    /\ calls' = calls \ {c}
    /\ IF ~Rejected(c)
       THEN /\ SetEmployees(Sorted(c.data))
            /\ SetForm(EmptyForm)
            /\ log' = Event("refetch-ok", c.k)
            /\ UNCHANGED anyFailed
       ELSE CatchSubmit("refetch-error", c.k)
    /\ Fixed
    /\ UNCHANGED <<localStorage, mountCalls, db, nEvents, resolved>>

\* ------------------------------------------------------------------------
\* The remote backend: POST /employees stores a record under a fresh
\* identifier, GET /employees answers with what is stored (or with a body
\* that is no sequence).
Ack == [message |-> "created"]

Stored(payload) == NewEmp(MaxId(db) + 1, payload)

PostBody(payload) ==
    CASE postShape = "record" -> Obj(Stored(payload))
      [] postShape = "ack" -> Obj(Ack)
      [] OTHER -> Other

ServerPost(c) ==
    /\ mounted /\ c \in calls /\ c.req = "POST" /\ c.phase = "request"
    /\ db' = Append(db, Stored(c.payload))
    /\ calls' = (calls \ {c}) \cup {Response(c, PostBody(c.payload))}
    /\ log' = Event("server", 0)
    /\ Fixed
    /\ UNCHANGED <<employees, form, localStorage, mounted, mountCalls,
                   nEvents, anyFailed, resolved>>

ServerGet(c) ==
    /\ mounted /\ c \in calls /\ c.req = "GET" /\ c.phase = "request"
    /\ \E data \in {Arr(db), Other} :
          calls' = (calls \ {c}) \cup {Response(c, data)}
    /\ log' = Event("server", 0)
    /\ Fixed
    /\ UNCHANGED <<employees, form, localStorage, mounted, mountCalls, db,
                   nEvents, anyFailed, resolved>>

\* ------------------------------------------------------------------------
\* The render: the identifier column of the table, one entry per row.
\* Variant of DisplayId that falls back to 0 as the sort comparator does
DisplayIdZero(emp, idx) == IdOf(emp)

\* emp?.employee_id ?? emp?.id ?? idx
DisplayId(emp, idx) ==
    IF HasField(emp, "employee_id") THEN emp.employee_id
    ELSE IF HasField(emp, "id") THEN emp.id
    ELSE idx

\* employees.map((emp, idx) => ...): idx counts from 0
Table ==
    IF IsArray(employees)
    THEN [i \in 1..Len(employees.items) |-> DisplayId(employees.items[i], i - 1)]
    ELSE <<>>

\* ------------------------------------------------------------------------
Next ==
    \/ FetchEmployeesLocal
    \/ FetchEmployeesRemote
    \/ \E c \in calls : MountResponse(c)
    \/ \E name \in FieldNames : \E value \in FieldValues(name) :
          HandleChange(name, value)
    \/ HandleSubmitLocal
    \/ HandleSubmitRemote
    \/ \E c \in calls : PostResponse(c)
    \/ \E c \in calls : RefetchResponse(c)
    \/ \E c \in calls : ServerPost(c)
    \/ \E c \in calls : ServerGet(c)

Spec == Init /\ [][Next]_vars

\* ------------------------------------------------------------------------
\* Properties

Items(v) == IF IsArray(v) THEN v.items ELSE <<>>

Last(s) == s[Len(s)]

Front(s) == SubSeq(s, 1, Len(s) - 1)

\* C1: in remote mode, when a create succeeds with an object as response
\* body, the in-memory list afterwards is the list before with that object
\* appended as its last element, whatever the object's identifier.
C1_ObjectResponseAppended ==
    [][(~useLocal /\ log' # log /\ log'.ev = "create-ok") =>
          /\ Len(employees'.items) = Len(employees.items) + 1
          /\ Front(employees'.items) = employees.items
          /\ \E c \in calls :
                /\ c.k = log'.k /\ c.phase = "response"
                /\ Last(employees'.items) = c.data.obj]_vars

\* C1 witness: a created record was appended after a row with a larger id
C1_Witness ==
    /\ ~useLocal /\ postShape = "record" /\ log.ev = "create-ok"
    /\ \E i \in 1..(Len(employees.items) - 1) :
          IdOf(employees.items[i]) > IdOf(Last(employees.items))

\* C2: in remote mode, when a create is answered with an acknowledgement
\* rather than the created record, the list is refetched and the
\* acknowledgement body is never added to the list as a row.
C2_AckNeverARow ==
    (~useLocal /\ IsArray(employees)) =>
        \A i \in 1..Len(employees.items) : employees.items[i] # Ack

\* C3: a submission that succeeds ends with the draft reset to five empty
\* strings, whichever reconciliation path was taken.
C3_DraftResetOnSuccess ==
    log.ev \in {"create-ok", "refetch-ok"} => form = EmptyForm

\* C3 witness: the refetch path completed for a draft that was not empty
C3_Witness ==
    /\ log.ev = "refetch-ok" /\ IsArray(employees)
    /\ \E i \in 1..Len(employees.items) :
          employees.items[i].first_name = Str("Ann")

\* C4: when a step of a submission fails (the create request, the refetch,
\* the local storage write), the error is caught, the in-memory list is
\* what it was and the draft keeps its values.
ErrorEvents == {"post-error", "refetch-error", "store-error"}

C5_LocalIdIsMaxPlusOne ==
    (useLocal /\ log.ev = "create-ok") =>
        LET old == Front(employees.items)
            newId == Last(employees.items).employee_id
        IN /\ \A i \in 1..Len(old) : IdOf(old[i]) < newId
           /\ \/ newId = 1
              \/ \E i \in 1..Len(old) : IdOf(old[i]) = newId - 1

\* C5 witness: a create on a list whose maximum is carried by an id field
C5_Witness ==
    /\ useLocal /\ log.ev = "create-ok" /\ Len(employees.items) >= 3
    /\ ~HasField(employees.items[1], "employee_id")
    /\ IdOf(employees.items[1]) = 3
    /\ Last(employees.items).employee_id = 4

\* C6: in local mode, from an absent or empty store, every record of the
\* in-memory list and of the persisted sequence has a positive identifier
\* and no two records share one.
UniquePositiveIds(s) ==
    /\ \A i \in 1..Len(s) : HasField(s[i], "employee_id") /\ s[i].employee_id > 0
    /\ \A i, j \in 1..Len(s) : i # j => s[i].employee_id # s[j].employee_id

Persisted == IF localStorage.t = "json" THEN Items(localStorage.value) ELSE <<>>

C6_LocalIdsUniquePositive ==
    (useLocal /\ initialStore \in {Absent, JsonText(Arr(<<>>))}) =>
        UniquePositiveIds(Items(employees)) /\ UniquePositiveIds(Persisted)

\* C6 witness: two creates from an empty store
C6_Witness ==
    /\ useLocal /\ initialStore \in {Absent, JsonText(Arr(<<>>))}
    /\ Len(Items(employees)) >= 2 /\ Len(Persisted) >= 2

\* C7: in local mode a create that succeeds leaves the persisted sequence
\* equal to the sequence persisted before with the new record appended, and
\* the in-memory list equal to that sequence.
C7_LocalCreateAppendsToPersisted ==
    [][(useLocal /\ log' # log /\ log'.ev = "create-ok"
          /\ (localStorage.t = "absent" \/
              (localStorage.t = "json" /\ IsArray(localStorage.value)))) =>
          /\ localStorage'.t = "json" /\ IsArray(localStorage'.value)
          /\ Len(localStorage'.value.items) = Len(Persisted) + 1
          /\ Front(localStorage'.value.items) = Persisted
          /\ Last(localStorage'.value.items).employee_id > 0
          /\ employees' = localStorage'.value]_vars

\* C7 witness: a create on a store that already held a record
C7_Witness ==
    /\ useLocal /\ log.ev = "create-ok" /\ Len(Persisted) >= 2
    /\ Persisted[1] = Seed("employee_id", 1, "Bob")

C9_AllStoredDisplayed ==
    (/\ ~useLocal /\ postShape # "ack" /\ mounted /\ mountCalls = 1
     /\ calls = {} /\ ~anyFailed) =>
        \A i \in 1..Len(db) :
            \E j \in 1..Len(Items(employees)) : employees.items[j] = db[i]

\* C10 as stated: a field of the draft that is empty or blank becomes null
\* in the payload, a blank salary too.
TextFields == {"first_name", "last_name", "email", "birthdate"}

IsBlank(s) == s \in {"", " "}

C10_BlankBecomesNull ==
    HasField(log, "payload") =>
        \A name \in FieldNames :
            IsBlank(log.draft[name]) => log.payload[name] = Null

\* C10 as amended: a text field that is the empty string becomes null and
\* any other value, a whitespace-only one included, is passed through
\* unchanged; an empty salary becomes null and any other salary a number.
C10_EmptyBecomesNull ==
    HasField(log, "payload") =>
        /\ \A name \in TextFields :
              log.payload[name] =
                 IF log.draft[name] = "" THEN Null ELSE Str(log.draft[name])
        /\ IF log.draft.salary = ""
           THEN log.payload.salary = Null
           ELSE log.payload.salary.t = "number"

\* C10 witness: a payload built from a blank last name and a salary
C10_Witness ==
    /\ HasField(log, "payload")
    /\ log.draft.last_name = " " /\ log.payload.last_name = Str(" ")

\* C11: in local mode the load at mount, with the storage key absent, sets
\* the persisted store to the empty sequence and the in-memory list to the
\* empty list; with a sequence under the key it sets the in-memory list to
\* that sequence and leaves the store as it is.
C11_LocalMountLoad ==
    (useLocal /\ log.ev = "mount-ok") =>
        /\ initialStore = Absent =>
              localStorage = JsonText(Arr(<<>>)) /\ employees = Arr(<<>>)
        /\ (initialStore.t = "json" /\ IsArray(initialStore.value)) =>
              employees = initialStore.value /\ localStorage = initialStore

\* C11 witness: the load at mount found no key and seeded the store
C11_Witness ==
    /\ useLocal /\ log.ev = "mount-ok" /\ initialStore = Absent
    /\ localStorage = JsonText(Arr(<<>>))

\* C12: the identifier shown for a row is the record's employee_id if it
\* has one, else its id, else the row's position in the list (from 0); the
\* table is computed from the list and the list is left as it is.
C12_DisplayedIdentifier ==
    /\ Len(Table) = Len(Items(employees))
    /\ \A i \in 1..Len(Table) :
          \/ /\ "employee_id" \in DOMAIN employees.items[i]
             /\ Table[i] = employees.items[i].employee_id
          \/ /\ "employee_id" \notin DOMAIN employees.items[i]
             /\ "id" \in DOMAIN employees.items[i]
             /\ Table[i] = employees.items[i].id
          \/ /\ "employee_id" \notin DOMAIN employees.items[i]
             /\ "id" \notin DOMAIN employees.items[i]
             /\ Table[i] = i - 1

\* C12 witness: a row without identifier fields, below the first row, is
\* shown with its position
C12_Witness ==
    \E i \in 2..Len(Table) :
        /\ DOMAIN employees.items[i] \cap {"employee_id", "id"} = {}
        /\ Table[i] = i - 1

\* C13: in remote mode with created records as responses, two overlapping
\* creates both end up in the list exactly once each, after the rows that
\* were there before and in the order in which their responses resolved.
Occurrences(s, x) == Cardinality({j \in 1..Len(s) : s[j] = x})

C13_OverlappingCreatesAppend ==
    (/\ ~useLocal /\ postShape = "record" /\ IsArray(employees)
     /\ Len(resolved) = 2 /\ resolved[1].k > resolved[2].k) =>
        LET n == Len(employees.items)
        IN /\ n >= 2
           /\ employees.items[n - 1] = resolved[1].row
           /\ employees.items[n] = resolved[2].row
           /\ Occurrences(employees.items, resolved[1].row) = 1
           /\ Occurrences(employees.items, resolved[2].row) = 1

\* C14: the list changes only in a step that completes the mount load or a
\* create successfully; an edit of a draft field sets exactly the named field
\* to the typed value and leaves the other draft fields, the list and the
\* persisted sequence as they were.
C14_EditFrame ==
    [][/\ (employees' # employees) =>
              log'.ev \in {"mount-ok", "create-ok", "refetch-ok"}
       /\ (log'.ev = "change" /\ log' # log) =>
              /\ form'[log'.name] = log'.value
              /\ \A f \in FieldNames \ {log'.name} : form'[f] = form[f]
              /\ employees' = employees
              /\ localStorage' = localStorage]_vars

\* C14 witness: a field was edited while another field of the draft was
\* filled in and the list held rows
C14_Witness ==
    /\ log.ev = "change"
    /\ form[log.name] = log.value
    /\ \E f \in FieldNames \ {log.name} : form[f] # ""
    /\ Len(Items(employees)) > 0

\* C15: in remote mode with created records as responses the list never
\* holds two rows of the same backend record (the same identifier),
\* whatever the interleaving of the mount load and the create responses.
C15_NoRecordTwice ==
    (~useLocal /\ postShape = "record" /\ IsArray(employees)) =>
        \A i, j \in 1..Len(employees.items) :
            i # j => IdOf(employees.items[i]) # IdOf(employees.items[j])

\* C16: the in-memory list is a sequence in every reachable state, whatever
\* body a successful list request returns and whatever text is stored under
\* the local storage key.
C16_ListIsSequence == IsArray(employees)

====
